---- MODULE Spec2Model ----
(***************************************************************************)
(* A model of nested_map: a lock-free 256-radix trie (src/src/table.rs)    *)
(* behind the NestedMap facade (src/src/nested_map.rs).                    *)
(*                                                                         *)
(* Threads run lookup / insert / delete.  Every atomic access of a slot    *)
(* (a load, a compare_and_set) is one step of the model; everything a      *)
(* thread does between two such accesses touches only its own locals and   *)
(* immutable leaves, and is folded into the step.                          *)
(***************************************************************************)
EXTENDS Integers, Sequences, FiniteSets, TLC

\* ------------------------------------------------------------------ bounds
NumThreads   == 3
MaxCalls     == 3
MaxSeqOps    == 4
MaxPairCalls == 4

\* ------------------------------------------------------- program constants
\* The slots of a Table.
Radix     == 256

\* The bytes of a key's digest (the Sponge is in src/sponge.rs, which is not
\* among the sources; it is modelled from section 4.1 of the specification).
DigestLen == 3

Threads == 1..NumThreads

\* The keys the operations are called with: 91 alone in its root slot, and
\* 256, 512, 66048 sharing their first squeeze byte (512 and 66048 the
\* first two).
Keys == {91, 256, 512, 66048}

\* ------------------------------------------------------------------ Sponge
RECURSIVE Pow(_, _)
Pow(b, n) == IF n = 0 THEN 1 ELSE b * Pow(b, n - 1)

\* The n-th byte of the key's stream: the key's DigestLen-byte digest, least
\* significant byte first, taken again from its start once exhausted.
Byte(key, n) == (key \div Pow(Radix, n % DigestLen)) % Radix

SpongeNew(key) == [key |-> key, cursor |-> 0]

\* squeeze() returns SqueezeByte(s) and leaves the sponge as Squeezed(s).
SqueezeByte(s) == Byte(s.key, s.cursor)

Squeezed(s) == [s EXCEPT !.cursor = @ + 1]

Matching(s, other) == [s EXCEPT !.cursor = other.cursor]

\* ---------------------------------------------------------------- pointers
\* A pointer is <<thread, op, j>>: j = 0 is the Leaf that the op-th operation
\* of the thread allocated, j >= 1 the j-th Branch its expansion allocated.
Null == <<0, 0, 0>>

Root == <<0, 0, 1>>

LeafPtr(t, n) == <<t, n, 0>>

BranchPtr(t, n, j) == <<t, n, j>>

\* The slots of a table that the keys' streams can address; the other slots
\* of the 256 stay null for ever.
Idx == {Byte(k, n) : k \in Keys, n \in 0..(DigestLen - 1)}

TableDefault == [i \in Idx |-> Null]

None == <<>>

Some(v) == <<v>>

\* The value the n-th operation of thread t inserts.
Val(t, n) == 10 * t + n

VARIABLES
  heap,     \* allocated buckets: pointer -> Leaf(Entry) or Branch
  tables,   \* published tables: Root and the Branch pointers -> slots
  pc,       \* per thread: "idle", "load" (about to load the slot), "cas"
  op,       \* per thread: the running call [kind, key, entry], the calls
            \* returned when it was made and the CASes it has lost so far
  self,     \* per thread: the table the call is in
  index,    \* per thread: the slot of that table
  sponge,   \* per thread: the call's Sponge
  bucket,   \* per thread: the pointer last loaded from the slot
  hist,     \* per thread: the calls returned so far, with results
  use,      \* how the map is used: the threads that call it, the number of
            \* calls they make in all, the keys they call it with
  held,     \* per thread: the Leaf that the reference returned by its last
            \* lookup points into, while the Guard of that lookup is live
  unlinked, \* the Leaves taken out of a slot by a CAS and then read out with
            \* ptr::read, their value moved to the caller
  destroyed,\* the buckets dropped with an unpublished Branch
  leaked    \* the number of tables built for a Branch that was never
            \* published and left allocated

vars == <<heap, tables, pc, op, self, index, sponge, bucket, hist, use,
          held, unlinked, destroyed, leaked>>

\* ------------------------------------------------------------- book-keeping
NoOp == [kind |-> "none", key |-> 0, entry |-> Null, after |-> {},
         lost |-> {}]

\* The calls that have returned: <<thread, position in the thread's history>>.
Returned == UNION {{<<t, n>> : n \in 1..Len(hist[t])} : t \in Threads}

\* The calls made so far, returned or running.
Calls == Cardinality(Returned) + Cardinality({t \in Threads : pc[t] # "idle"})

MayCall(t, key) ==
  /\ pc[t] = "idle"
  /\ held[t] = Null
  /\ t \in use.threads
  /\ key \in use.keys
  /\ Calls < use.calls

\* The call of thread t returns r: it is appended to the thread's history and
\* the thread's locals go out of scope.
Return(t, r) ==
  /\ hist' = [hist EXCEPT ![t] = Append(@, [kind  |-> op[t].kind,
                                             key   |-> op[t].key,
                                             entry |-> op[t].entry,
                                             after |-> op[t].after,
                                             lost  |-> op[t].lost,
                                             ret   |-> r])]
  /\ pc' = [pc EXCEPT ![t] = "idle"]
  /\ op' = [op EXCEPT ![t] = NoOp]
  /\ self' = [self EXCEPT ![t] = Root]
  /\ index' = [index EXCEPT ![t] = 0]
  /\ sponge' = [sponge EXCEPT ![t] = SpongeNew(0)]
  /\ bucket' = [bucket EXCEPT ![t] = Null]

\* Table::lookup / insert / delete is entered on table tb with sponge s: the
\* sponge is squeezed for the slot.
Enter(t, tb, s) ==
  /\ self' = [self EXCEPT ![t] = tb]
  /\ index' = [index EXCEPT ![t] = SqueezeByte(s)]
  /\ sponge' = [sponge EXCEPT ![t] = Squeezed(s)]
  /\ bucket' = [bucket EXCEPT ![t] = Null]
  /\ pc' = [pc EXCEPT ![t] = "load"]

\* The loop of insert / delete runs again: same table, same index, and the
\* sponge as it now is.
Continue(t, s) ==
  /\ sponge' = [sponge EXCEPT ![t] = s]
  /\ bucket' = [bucket EXCEPT ![t] = Null]
  /\ pc' = [pc EXCEPT ![t] = "load"]
  /\ UNCHANGED <<self, index>>

IsLeaf(p) == p # Null /\ heap[p].type = "Leaf"

IsBranch(p) == p # Null /\ heap[p].type = "Branch"

\* A plain store in the place of compare_and_set.
CasAlways(current, expected) == TRUE

\* A compare_and_set that fails whatever the slot holds.
CasSpurious(current, expected) == FALSE

\* compare_and_set succeeds iff the slot still holds the pointer loaded.
CasOk(current, expected) == current = expected

\* Bucket::into_value, as an Option: the value of a Leaf, nothing otherwise.
IntoValue(p) == IF heap[p].type = "Leaf" THEN heap[p].value ELSE None

\* ------------------------------------------------------------ NestedMap
MapLookup(t, key) ==
  /\ MayCall(t, key)
  /\ op' = [op EXCEPT ![t] = [kind |-> "lookup", key |-> key, entry |-> Null,
                              after |-> Returned,
                              lost |-> {}]]
  /\ Enter(t, Root, SpongeNew(key))
  /\ UNCHANGED <<heap, tables, hist, use, held, unlinked, destroyed, leaked>>

MapInsert(t, key) ==
  /\ MayCall(t, key)
  /\ LET n == Len(hist[t]) + 1
         entry == LeafPtr(t, n)
     IN  /\ heap' = (entry :> [type |-> "Leaf", key |-> key,
                               value |-> Some(Val(t, n))]) @@ heap
         /\ op' = [op EXCEPT ![t] = [kind |-> "insert", key |-> key,
                                     entry |-> entry, after |-> Returned,
                                     lost |-> {}]]
  /\ Enter(t, Root, SpongeNew(key))
  /\ UNCHANGED <<tables, hist, use, held, unlinked, destroyed, leaked>>

MapDelete(t, key) ==
  /\ MayCall(t, key)
  /\ op' = [op EXCEPT ![t] = [kind |-> "delete", key |-> key, entry |-> Null,
                              after |-> Returned,
                              lost |-> {}]]
  /\ Enter(t, Root, SpongeNew(key))
  /\ UNCHANGED <<heap, tables, hist, use, held, unlinked, destroyed, leaked>>

\* ---------------------------------------------------------------- Table
\* Table::lookup with the comparison of the keys left out.
TableLookupAnyKey(t) ==
  /\ pc[t] = "load" /\ op[t].kind = "lookup"
  /\ LET b == tables[self[t]][index[t]]
     IN  IF b = Null THEN Return(t, None) /\ UNCHANGED held
         ELSE IF heap[b].type = "Leaf"
              THEN /\ Return(t, heap[b].value)
                   /\ held' = [held EXCEPT ![t] = b]
              ELSE Enter(t, b, sponge[t]) /\ UNCHANGED <<op, hist, held>>
  /\ UNCHANGED <<heap, tables, use, unlinked, destroyed, leaked>>

\* Table::lookup: one level.
TableLookup(t) ==
  /\ pc[t] = "load" /\ op[t].kind = "lookup"
  /\ LET b == tables[self[t]][index[t]]
     IN  IF b = Null THEN Return(t, None) /\ UNCHANGED held
         ELSE IF heap[b].type = "Leaf"
              THEN IF op[t].key = heap[b].key
                   THEN /\ Return(t, heap[b].value)
                        /\ held' = [held EXCEPT ![t] = b]
                   ELSE Return(t, None) /\ UNCHANGED held
              ELSE Enter(t, b, sponge[t]) /\ UNCHANGED <<op, hist, held>>
  /\ UNCHANGED <<heap, tables, use, unlinked, destroyed, leaked>>

\* with_two_entries without the case of the two bytes being equal.
WithTwoEntriesFlat(entry1, sponge1, entry2, sponge2, t, n, j) ==
  [built  |-> (BranchPtr(t, n, j) :>
                 [[TableDefault EXCEPT ![SqueezeByte(sponge1)] = entry1]
                    EXCEPT ![SqueezeByte(sponge2)] = entry2]),
   sponge |-> Squeezed(sponge1)]

\* with_two_entries storing its first entry in both slots.
RECURSIVE WithTwoEntriesTwice(_, _, _, _, _, _, _)
WithTwoEntriesTwice(entry1, sponge1, entry2, sponge2, t, n, j) ==
  LET idx1 == SqueezeByte(sponge1)
      idx2 == SqueezeByte(sponge2)
      me   == BranchPtr(t, n, j)
  IN  IF idx1 # idx2
      THEN [built  |-> (me :> [[TableDefault EXCEPT ![idx1] = entry1]
                                 EXCEPT ![idx2] = entry1]),
            sponge |-> Squeezed(sponge1)]
      ELSE LET sub == WithTwoEntriesTwice(entry1, Squeezed(sponge1),
                                          entry2, Squeezed(sponge2),
                                          t, n, j + 1)
           IN [built  |-> (me :> [TableDefault EXCEPT
                                    ![idx1] = BranchPtr(t, n, j + 1)])
                          @@ sub.built,
               sponge |-> sub.sponge]

\* Table::with_two_entries on sponges at the same cursor: the tables built,
\* the outermost being the one returned, and the cursor both sponges end at.
\* The table at nesting level j is the one that Branch j + 1 of the call
\* wraps (Branch 1 being the bucket the caller wraps the result in).
RECURSIVE WithTwoEntries(_, _, _, _, _, _, _)
WithTwoEntries(entry1, sponge1, entry2, sponge2, t, n, j) ==
  LET idx1 == SqueezeByte(sponge1)
      idx2 == SqueezeByte(sponge2)
      me   == BranchPtr(t, n, j)
  IN  IF idx1 # idx2
      THEN [built  |-> (me :> [[TableDefault EXCEPT ![idx1] = entry1]
                                 EXCEPT ![idx2] = entry2]),
            sponge |-> Squeezed(sponge1)]
      ELSE LET sub == WithTwoEntries(entry1, Squeezed(sponge1),
                                     entry2, Squeezed(sponge2), t, n, j + 1)
           IN [built  |-> (me :> [TableDefault EXCEPT
                                    ![idx1] = BranchPtr(t, n, j + 1)])
                          @@ sub.built,
               sponge |-> sub.sponge]

\* The buckets that the tables built hold in their slots.
Captured(built) ==
  {built[b][i] : b \in DOMAIN built, i \in Idx} \ {Null}

\* A drop of the Branch that frees all that its tables point to.
DropBranchOwning(built) == Captured(built)

\* The drop of the Owned Branch that lost its CAS: what it destroys beyond
\* the Branch itself.  Table has no Drop and its slots are Atomic, which does
\* not drop what it points to: nothing.
DropBranch(built) == {}

\* Table::insert: the load at the top of the loop and the match on it.
InsertLoad(t) ==
  /\ pc[t] = "load" /\ op[t].kind = "insert"
  /\ LET b == tables[self[t]][index[t]]
     IN  IF IsBranch(b)
         THEN Enter(t, b, sponge[t])
         ELSE /\ bucket' = [bucket EXCEPT ![t] = b]
              /\ pc' = [pc EXCEPT ![t] = "cas"]
              /\ UNCHANGED <<self, index, sponge>>
  /\ UNCHANGED <<heap, tables, op, hist, use, held, unlinked, destroyed,
                 leaked>>

\* Table::insert, the slot was empty: CAS null -> entry.
InsertCasEmpty(t) ==
  /\ pc[t] = "cas" /\ op[t].kind = "insert"
  /\ bucket[t] = Null
  /\ IF CasOk(tables[self[t]][index[t]], bucket[t])
     THEN /\ tables' = [tables EXCEPT ![self[t]][index[t]] = op[t].entry]
          /\ Return(t, None)
     ELSE /\ Continue(t, sponge[t])
          /\ op' = [op EXCEPT ![t].lost = @ \cup {"empty"}]
          /\ UNCHANGED <<tables, hist>>
  /\ UNCHANGED <<heap, use, held, unlinked, destroyed, leaked>>

\* Table::insert, the slot held a Leaf of the same key: CAS leaf -> entry.
InsertCasReplace(t) ==
  /\ pc[t] = "cas" /\ op[t].kind = "insert"
  /\ IsLeaf(bucket[t])
  /\ heap[op[t].entry].key = heap[bucket[t]].key
  /\ IF CasOk(tables[self[t]][index[t]], bucket[t])
     THEN /\ tables' = [tables EXCEPT ![self[t]][index[t]] = op[t].entry]
          /\ unlinked' = unlinked \cup {bucket[t]}
          /\ Return(t, IntoValue(bucket[t]))
     ELSE /\ Continue(t, sponge[t])
          /\ op' = [op EXCEPT ![t].lost = @ \cup {"replace"}]
          /\ UNCHANGED <<tables, hist, unlinked>>
  /\ UNCHANGED <<heap, use, held, destroyed, leaked>>

\* Table::insert, the slot held a Leaf of another key: a Branch over a table
\* with the two entries is built, then CAS leaf -> Branch.
InsertCasExpand(t) ==
  /\ pc[t] = "cas" /\ op[t].kind = "insert"
  /\ IsLeaf(bucket[t])
  /\ heap[op[t].entry].key # heap[bucket[t]].key
  /\ LET n       == Len(hist[t]) + 1
         sponge2 == Matching(SpongeNew(heap[bucket[t]].key), sponge[t])
         two     == WithTwoEntries(op[t].entry, sponge[t],
                                   bucket[t], sponge2, t, n, 1)
         branch  == BranchPtr(t, n, 1)
     IN  IF CasOk(tables[self[t]][index[t]], bucket[t])
         THEN /\ tables' = [tables EXCEPT ![self[t]][index[t]] = branch]
                           @@ two.built
              /\ heap' = [p \in DOMAIN two.built |-> [type |-> "Branch"]]
                         @@ heap
              /\ Return(t, None)
              /\ UNCHANGED <<destroyed, leaked>>
         ELSE /\ Continue(t, two.sponge)
              /\ op' = [op EXCEPT ![t].lost = @ \cup {"expand"}]
              /\ destroyed' = destroyed \cup DropBranch(two.built)
              /\ leaked' = leaked + Cardinality(DOMAIN two.built) - 1
              /\ UNCHANGED <<heap, tables, hist>>
  /\ UNCHANGED <<use, held, unlinked>>

\* Table::delete taking a Branch for a bucket to remove, not one to descend
\* into.
DeleteLoadCollapse(t) ==
  /\ pc[t] = "load" /\ op[t].kind = "delete"
  /\ LET b == tables[self[t]][index[t]]
     IN  IF b = Null THEN Return(t, None)
         ELSE /\ bucket' = [bucket EXCEPT ![t] = b]
              /\ pc' = [pc EXCEPT ![t] = "cas"]
              /\ UNCHANGED <<self, index, sponge, op, hist>>
  /\ UNCHANGED <<heap, tables, use, held, unlinked, destroyed, leaked>>

\* Table::delete: the load at the top of the loop and the match on it.
DeleteLoad(t) ==
  /\ pc[t] = "load" /\ op[t].kind = "delete"
  /\ LET b == tables[self[t]][index[t]]
     IN  IF b = Null THEN Return(t, None)
         ELSE IF heap[b].type = "Branch"
              THEN Enter(t, b, sponge[t]) /\ UNCHANGED <<op, hist>>
              ELSE /\ bucket' = [bucket EXCEPT ![t] = b]
                   /\ pc' = [pc EXCEPT ![t] = "cas"]
                   /\ UNCHANGED <<self, index, sponge, op, hist>>
  /\ UNCHANGED <<heap, tables, use, held, unlinked, destroyed, leaked>>

\* Table::delete, the slot held a Leaf: CAS leaf -> null.
DeleteCas(t) ==
  /\ pc[t] = "cas" /\ op[t].kind = "delete"
  /\ IF CasOk(tables[self[t]][index[t]], bucket[t])
     THEN /\ tables' = [tables EXCEPT ![self[t]][index[t]] = Null]
          /\ unlinked' = unlinked \cup {bucket[t]}
          /\ Return(t, IntoValue(bucket[t]))
     ELSE /\ Continue(t, sponge[t])
          /\ op' = [op EXCEPT ![t].lost = @ \cup {"delete"}]
          /\ UNCHANGED <<tables, hist, unlinked>>
  /\ UNCHANGED <<heap, use, held, destroyed, leaked>>

\* The Guard of the thread's last lookup is dropped, and the reference
\* that the lookup returned with it.
Unpin(t) ==
  /\ pc[t] = "idle"
  /\ held[t] # Null
  /\ held' = [held EXCEPT ![t] = Null]
  /\ UNCHANGED <<heap, tables, pc, op, self, index, sponge, bucket, hist, use,
                 unlinked, destroyed, leaked>>

\* ----------------------------------------------------------- specification
InitLocals ==
  /\ heap = <<>>
  /\ tables = (Root :> TableDefault)
  /\ pc = [t \in Threads |-> "idle"]
  /\ op = [t \in Threads |-> NoOp]
  /\ self = [t \in Threads |-> Root]
  /\ index = [t \in Threads |-> 0]
  /\ sponge = [t \in Threads |-> SpongeNew(0)]
  /\ bucket = [t \in Threads |-> Null]
  /\ hist = [t \in Threads |-> <<>>]
  /\ held = [t \in Threads |-> Null]
  /\ unlinked = {}
  /\ destroyed = {}
  /\ leaked = 0

\* NestedMap::new; the map is then shared by all the threads.
Init ==
  /\ InitLocals
  /\ use = [threads |-> Threads, calls |-> MaxCalls, keys |-> Keys]

\* NestedMap::new; the map is then used by one thread.
SeqInit ==
  /\ InitLocals
  /\ use = [threads |-> {1}, calls |-> MaxSeqOps, keys |-> Keys]

\* NestedMap::new; the map is then shared by two threads, which call it with
\* the two keys that agree on their first two squeeze bytes.
PairInit ==
  /\ InitLocals
  /\ use = [threads |-> {1, 2}, calls |-> MaxPairCalls, keys |-> {512, 66048}]

Next ==
  \E t \in Threads :
    \/ \E key \in Keys : MapLookup(t, key)
    \/ \E key \in Keys : MapInsert(t, key)
    \/ \E key \in Keys : MapDelete(t, key)
    \/ TableLookup(t)
    \/ InsertLoad(t)
    \/ InsertCasEmpty(t)
    \/ InsertCasReplace(t)
    \/ InsertCasExpand(t)
    \/ DeleteLoad(t)
    \/ DeleteCas(t)
    \/ Unpin(t)

\* NestedMap::new; the map is then shared by two threads that make MaxCalls
\* calls in all, with the two keys that agree on their first two bytes.
FairInit ==
  /\ InitLocals
  /\ use = [threads |-> {1, 2}, calls |-> MaxCalls, keys |-> {512, 66048}]

\* The steps of the call that thread t is running.
Step(t) ==
  \/ TableLookup(t)
  \/ InsertLoad(t)
  \/ InsertCasEmpty(t)
  \/ InsertCasReplace(t)
  \/ InsertCasExpand(t)
  \/ DeleteLoad(t)
  \/ DeleteCas(t)

Spec == Init /\ [][Next]_vars

\* Every thread that is in a call keeps being scheduled.
FairSpec == FairInit /\ [][Next]_vars /\ \A t \in Threads : WF_vars(Step(t))

SeqSpec == SeqInit /\ [][Next]_vars

PairSpec == PairInit /\ [][Next]_vars

\* ------------------------------------------------------- the map, at rest
\* Table::lookup run to its end on the tables as they now are.
RECURSIVE LookupIn(_, _, _)
LookupIn(tb, key, s) ==
  LET b == tables[tb][SqueezeByte(s)]
  IN  IF b = Null THEN None
      ELSE IF heap[b].type = "Leaf"
           THEN IF key = heap[b].key THEN heap[b].value ELSE None
           ELSE LookupIn(b, key, Squeezed(s))

\* NestedMap::lookup run to its end on the tables as they now are.
Lookup(key) == LookupIn(Root, key, SpongeNew(key))

\* The Leaves reachable from table tb, each with the slot indices that lead
\* to it from the root (path being those that lead to tb).
RECURSIVE LeavesUnder(_, _)
LeavesUnder(tb, path) ==
  UNION {LET b == tables[tb][i]
         IN  IF b = Null THEN {}
             ELSE IF heap[b].type = "Leaf"
                  THEN {[ptr |-> b, path |-> Append(path, i)]}
                  ELSE LeavesUnder(b, Append(path, i)) : i \in Idx}

Leaves == LeavesUnder(Root, <<>>)

\* The slots of the published tables.
Slots == {<<tb, i>> : tb \in DOMAIN tables, i \in Idx}

Quiescent == \A t \in Threads : pc[t] = "idle"

\* The returned call <<t, n>>.
Call(c) == hist[c[1]][c[2]]

\* The value an insert call was given.
Given(c) == heap[c.entry].value

\* ---------------------------------------------------- the reference map
\* A sequential key-to-value map: every call returns the binding the key had
\* (insert the previous one, delete the removed one, lookup the current one).
RefEmpty == [k \in Keys |-> None]

RefRet(m, c) == m[c.key]

RefNext(m, c) ==
  CASE c.kind = "insert" -> [m EXCEPT ![c.key] = Given(c)]
    [] c.kind = "delete" -> [m EXCEPT ![c.key] = None]
    [] OTHER -> m

\* The reference map after the first n calls of the history h of one thread.
RECURSIVE RefAfter(_, _)
RefAfter(h, n) == IF n = 0 THEN RefEmpty ELSE RefNext(RefAfter(h, n - 1), h[n])

\* The returned calls can be put one after the other, from the calls in done
\* on and from the reference map m, each call after the calls that returned
\* before it was made and each returning what the reference map returns.
RECURSIVE Linearizes(_, _)
Linearizes(done, m) ==
  \/ done = Returned
  \/ \E c \in Returned \ done :
       /\ Call(c).after \subseteq done
       /\ Call(c).ret = RefRet(m, Call(c))
       /\ Linearizes(done \cup {c}, RefNext(m, Call(c)))

\* ------------------------------------------------------------------ claims
\* C1: every single-key operation is linearizable: once all calls of a
\* concurrent execution have returned, they can be put in a serial order that
\* respects real time and in which each returns what it returned, run against
\* a sequential key-to-value map.
C1_Linearizable == Quiescent => Linearizes({}, RefEmpty)

\* C2: used by one thread, the map agrees with the reference map driven by
\* the same sequence of calls: every call returned what the reference map
\* returns, and between calls the bindings are those of the reference map.
C2_AgreesWithReference ==
  Cardinality(use.threads) = 1 =>
    /\ \A n \in 1..Len(hist[1]) :
         hist[1][n].ret = RefRet(RefAfter(hist[1], n - 1), hist[1][n])
    /\ Quiescent =>
         \A k \in Keys : Lookup(k) = RefAfter(hist[1], Len(hist[1]))[k]

\* The calls were all inserts, of pairwise distinct keys.
DistinctInserts ==
  /\ \A c \in Returned : Call(c).kind = "insert"
  /\ \A c, d \in Returned : c # d => Call(c).key # Call(d).key

\* C3: when threads insert pairwise distinct keys and nothing is deleted,
\* every insert returns None, and once all have returned every key inserted
\* is looked up with the value inserted for it.
C3_DistinctInsertsAllFound ==
  (Quiescent /\ DistinctInserts) =>
    \A c \in Returned :
      /\ Call(c).ret = None
      /\ Lookup(Call(c).key) = Given(Call(c))

\* C4: a delete of a key that is not in the map returns NotFound and leaves
\* every slot as it was.
C4_DeleteAbsentKey ==
  [][\A t \in Threads :
       (/\ op[t].kind = "delete"
        /\ Len(hist'[t]) = Len(hist[t]) + 1
        /\ Lookup(op[t].key) = None)
       => /\ hist'[t][Len(hist'[t])].ret = None
          /\ tables' = tables]_vars

RECURSIVE LastWrite(_, _, _)
LastWrite(h, n, k) ==
  IF n <= 1 THEN 0
  ELSE IF h[n - 1].key = k /\ h[n - 1].kind \in {"insert", "delete"}
       THEN n - 1
       ELSE LastWrite(h, n - 1, k)

\* C6: an insert(k, v2) that follows insert(k, v1) with no delete(k) in
\* between returns Some(v1); an insert of an unoccupied key returns None.
C6_Displacement ==
  Cardinality(use.threads) = 1 =>
    \A n \in 1..Len(hist[1]) :
      hist[1][n].kind = "insert" =>
        LET m == LastWrite(hist[1], n, hist[1][n].key)
        IN  IF m # 0 /\ hist[1][m].kind = "insert"
            THEN hist[1][n].ret = Given(hist[1][m])
            ELSE hist[1][n].ret = None

\* No insert of key k can have taken effect after the returned delete d
\* returned and before the instant given by the set later of calls made after
\* it: every insert of k returned before d was made, or was made after.
NoInsertBetween(k, d, later) ==
  /\ \A i \in Returned :
       (Call(i).kind = "insert" /\ Call(i).key = k) =>
         (i \in Call(d).after \/ i \in later)
  /\ \A t \in Threads :
       (op[t].kind = "insert" /\ op[t].key = k) => t \in {c[1] : c \in later}

\* The running and returned calls made after the returned call l returned.
MadeAfter(l) ==
  {i \in Returned : l \in Call(i).after}
    \cup {<<t, Len(hist[t]) + 1>> : t \in {u \in Threads : l \in op[u].after}}

\* C7: after a delete(k) that returned a value, every lookup(k) made later
\* returns None (and, at rest, the map holds no binding of k) until the next
\* insert(k, _) takes effect.
C7_AbsentAfterDelete ==
  \A d \in Returned :
    (Call(d).kind = "delete" /\ Call(d).ret # None) =>
      /\ \A l \in Returned :
           (/\ Call(l).kind = "lookup"
            /\ Call(l).key = Call(d).key
            /\ d \in Call(l).after
            /\ NoInsertBetween(Call(d).key, d, MadeAfter(l)))
           => Call(l).ret = None
      /\ (Quiescent /\ NoInsertBetween(Call(d).key, d, {}))
           => Lookup(Call(d).key) = None

\* A lookup(k) has returned that was made after a delete(k) returned a value
\* and after a later insert put another key's Leaf into the slot k selects.
C7_Witness ==
  \E d, i, l \in Returned :
    /\ Call(d).kind = "delete" /\ Call(d).ret # None
    /\ Call(i).kind = "insert" /\ Call(i).key # Call(d).key
    /\ Byte(Call(i).key, 0) = Byte(Call(d).key, 0)
    /\ Call(l).kind = "lookup" /\ Call(l).key = Call(d).key
    /\ d \in Call(i).after /\ i \in Call(l).after
    /\ NoInsertBetween(Call(d).key, d, MadeAfter(l))
    /\ Lookup(Call(i).key) # None

\* The Leaf lies on the path that its key's squeeze bytes select.
OnPath(l) ==
  \A d \in 1..Len(l.path) : l.path[d] = Byte(heap[l.ptr].key, d - 1)

\* C8: no two Leaves reachable from the root hold the same key, and every
\* reachable Leaf lies on the path selected by its key's squeeze bytes (so
\* after an insert of k exactly one Leaf of k is reachable, on k's path).
C8_Uniqueness ==
  /\ \A l1, l2 \in Leaves :
       heap[l1.ptr].key = heap[l2.ptr].key => l1 = l2
  /\ \A l \in Leaves : OnPath(l)

\* C9: once a slot of a published table holds a Branch, it holds that Branch
\* in every later state.
C9_BranchMonotonic ==
  [][\A s \in Slots :
       IsBranch(tables[s[1]][s[2]]) =>
         tables'[s[1]][s[2]] = tables[s[1]][s[2]]]_vars

\* The deletes of two threads have emptied the subtree of a Branch, which
\* is still in its slot.
C9_Witness ==
  /\ \E s \in Slots :
       /\ IsBranch(tables[s[1]][s[2]])
       /\ LeavesUnder(tables[s[1]][s[2]], <<>>) = {}
  /\ \A t \in use.threads :
       \E n \in 1..Len(hist[t]) :
         hist[t][n].kind = "delete" /\ hist[t][n].ret # None

\* The calls were all inserts of one key.
SameKeyInserts ==
  /\ Returned # {}
  /\ \A c \in Returned : Call(c).kind = "insert"
  /\ \A c, d \in Returned : Call(c).key = Call(d).key

\* C10: when the calls are inserts of one key with pairwise distinct values,
\* then once all have returned the stored value is one of the values, exactly
\* one call returned None, and the values returned together with the stored
\* one are all the values, none twice.
C10_ContendedKey ==
  (Quiescent /\ SameKeyInserts) =>
    LET given   == {Given(Call(c)) : c \in Returned}
        nones   == {c \in Returned : Call(c).ret = None}
        somes   == Returned \ nones
        stored  == Lookup(Call(CHOOSE c \in Returned : TRUE).key)
    IN  /\ stored \in given
        /\ Cardinality(nones) = 1
        /\ \A c, d \in somes : Call(c).ret = Call(d).ret => c = d
        /\ \A c \in somes : Call(c).ret # stored
        /\ {Call(c).ret : c \in somes} \cup {stored} = given

\* Three threads have inserted one key, each call made before any of the
\* others returned.
C10_Witness ==
  /\ Quiescent /\ SameKeyInserts
  /\ Cardinality(Returned) = 3
  /\ \A c \in Returned : Call(c).after = {}

\* ------------------------------------------------------------- references
\* C11: a reference returned by lookup stays valid while the Guard of that
\* lookup is held: no insert of the same key and no delete moves the value
\* out of the Leaf the reference points into, or destroys that Leaf.
C11_ReferenceValid ==
  \A t \in Threads :
    held[t] # Null => held[t] \notin (unlinked \cup destroyed)

\* ------------------------------------------------------------ lock-freedom
\* The calls returned that lost a CAS of one of the kinds on their way.
Losers(kinds) ==
  {c \in Returned : hist[c[1]][c[2]].lost \cap kinds # {}}

\* C12: an insert or delete goes round its loop again only after a CAS that
\* failed because the slot no longer held the pointer it had loaded (another
\* call's CAS on the slot succeeded in between); a thread in a call can
\* always take its next step whatever the other threads do; and with the
\* threads scheduled fairly every call returns.
C12_LockFree ==
  /\ [][\A t \in Threads :
          pc[t] = "cas" /\ pc'[t] = "load" =>
            tables[self[t]][index[t]] # bucket[t]]_vars
  /\ [](\A t \in Threads : pc[t] # "idle" => ENABLED Step(t))
  /\ \A t \in Threads : (pc[t] # "idle") ~> (pc[t] = "idle")

\* Both threads have had a call return after it lost a CAS and retried.
C12_Witness ==
  /\ Quiescent
  /\ \A t \in use.threads : \E c \in Losers({"empty", "replace", "expand",
                                               "delete"}) : c[1] = t

\* ------------------------------------------------------------------ churn
\* All the calls made so far, returned or running, are calls with key k.
OneKey(k) ==
  /\ \A c \in Returned : Call(c).key = k
  /\ \A t \in Threads : op[t].kind # "none" => op[t].key = k

\* C13: while the threads insert and delete one and the same key, a delete
\* that returns a value returns the value of the Leaf that a returned insert
\* of that key published and that is in the map when the delete takes
\* effect, and a delete that finds the key absent returns NotFound.
C13_Churn ==
  [][\A t \in Threads :
       (op[t].kind = "delete" /\ pc'[t] = "idle" /\ OneKey(op[t].key)) =>
         LET r == hist'[t][Len(hist'[t])].ret
         IN  IF Lookup(op[t].key) = None
             THEN r = None
             ELSE /\ r = Lookup(op[t].key)
                  /\ \E c \in Returned :
                       /\ Call(c).kind = "insert"
                       /\ Call(c).key = op[t].key
                       /\ Given(Call(c)) = r
                       /\ Call(c).entry \notin unlinked]_vars

\* Two deletes of the one key in use have returned the values of two
\* inserts, one of them after it lost its CAS to the other.
C13_Witness ==
  /\ Quiescent
  /\ \E k \in use.keys :
       /\ OneKey(k)
       /\ \E c1, c2 \in Returned :
            /\ Call(c1).kind = "delete" /\ Call(c2).kind = "delete"
            /\ Call(c1).ret # None /\ Call(c2).ret # None
            /\ Call(c1).ret # Call(c2).ret
            /\ c1 \in Losers({"delete"})

\* ------------------------------------------------------------- trajectory
\* C14: every Leaf reachable from the root sits, at every depth, in the slot
\* that the squeeze byte of its key for that depth selects.
C14_Trajectory == \A l \in Leaves : OnPath(l)

\* C15: an insert whose CAS fails (on an empty slot, on a Leaf of its key or
\* on a Leaf of another key) goes round its loop in the same table, at the
\* same slot and with its Sponge where it was before the attempt.
C15_RetrySameLevel ==
  [][\A t \in Threads :
       (op[t].kind = "insert" /\ pc[t] = "cas" /\ pc'[t] = "load") =>
         /\ self'[t] = self[t]
         /\ index'[t] = index[t]
         /\ sponge'[t] = sponge[t]]_vars

\* ------------------------------------------------------- with_two_entries
\* Thread t has loaded a Leaf of another key than the one it inserts, and
\* is about to build a Branch over the two and to CAS it in.
Expanding(t) ==
  /\ pc[t] = "cas" /\ op[t].kind = "insert"
  /\ IsLeaf(bucket[t])
  /\ heap[op[t].entry].key # heap[bucket[t]].key

\* The first level, counted from cursor c, at which the streams of the two
\* keys differ.
Diverge(k1, k2, c) ==
  CHOOSE l \in 0..(DigestLen - 1) :
    /\ Byte(k1, c + l) # Byte(k2, c + l)
    /\ \A m \in 0..(l - 1) : Byte(k1, c + m) = Byte(k2, c + m)

\* The tables built are a chain of tables with one slot taken, one for every
\* level at which the two bytes agree, and a last table that holds each of
\* the two entries in the slot of its own byte and nothing else.
TwoShape(built, entry1, entry2, c, t, n) ==
  LET k1 == heap[entry1].key
      k2 == heap[entry2].key
      L  == Diverge(k1, k2, c)
  IN  /\ DOMAIN built = {BranchPtr(t, n, j) : j \in 1..(L + 1)}
      /\ \A j \in 1..L :
           built[BranchPtr(t, n, j)] =
             [TableDefault EXCEPT ![Byte(k1, c + j - 1)] =
                                    BranchPtr(t, n, j + 1)]
      /\ \A i \in Idx :
           built[BranchPtr(t, n, L + 1)][i] =
             IF i = Byte(k1, c + L) THEN entry1
             ELSE IF i = Byte(k2, c + L) THEN entry2
             ELSE Null
      /\ Captured(built) \cap {p \in DOMAIN heap : IsLeaf(p)}
           = {entry1, entry2}

\* C16: with_two_entries, called by an expanding insert with two Leaves of
\* distinct keys and their Sponges at the same cursor, returns a chain of
\* single-slot tables ending in a table with exactly the two Leaves, each at
\* its own byte; it is this subtree that a successful CAS publishes.
C16_TwoEntries ==
  [][\A t \in Threads :
       (Expanding(t) /\ pc'[t] # "cas") =>
         LET n       == Len(hist[t]) + 1
             sponge2 == Matching(SpongeNew(heap[bucket[t]].key), sponge[t])
             two     == WithTwoEntries(op[t].entry, sponge[t],
                                       bucket[t], sponge2, t, n, 1)
         IN  /\ TwoShape(two.built, op[t].entry, bucket[t],
                         sponge[t].cursor, t, n)
             /\ pc'[t] = "idle" =>
                  \A b \in DOMAIN two.built : tables'[b] = two.built[b]]_vars

\* An insert has published a chain of at least two tables and another has
\* built one that lost its CAS.
C16_Witness ==
  /\ \E c \in Returned :
       /\ Call(c).kind = "insert"
       /\ BranchPtr(c[1], c[2], 2) \in DOMAIN tables
  /\ Losers({"expand"}) # {}

\* ------------------------------------------------------------- lost CAS
\* The slots of the tables tbs that hold pointer p.
HoldersIn(tbs, p) ==
  {sl \in {<<tb, i>> : tb \in DOMAIN tbs, i \in Idx} : tbs[sl[1]][sl[2]] = p}

\* C17: when an insert loses the CAS that would have published the Branch
\* it built, the Leaf it had loaded is neither read out nor destroyed by
\* it, no slot of a published table changes (nothing of the Branch is
\* published, and the Leaf being inserted is in no slot yet); and when that
\* insert returns, its Leaf has gone into exactly one slot.
C17_FailedCasCleanup ==
  [][\A t \in Threads :
       /\ (Expanding(t) /\ pc'[t] = "load") =>
            /\ tables' = tables /\ heap' = heap
            /\ unlinked' = unlinked
            /\ bucket[t] \notin destroyed'
            /\ op[t].entry \notin destroyed'
            /\ HoldersIn(tables', op[t].entry) = {}
       /\ (op[t].kind = "insert" /\ "expand" \in op[t].lost
             /\ pc'[t] = "idle") =>
            /\ HoldersIn(tables, op[t].entry) = {}
            /\ Cardinality(HoldersIn(tables', op[t].entry)) = 1]_vars

\* An insert that lost an expansion CAS has returned, its Leaf is reachable
\* from the root, and so is a Leaf of another key that was inserted before
\* that insert was called.
C17_Witness ==
  \E c \in Losers({"expand"}) :
    /\ \E l \in Leaves : l.ptr = Call(c).entry
    /\ \E l \in Leaves :
         /\ l.ptr # Call(c).entry
         /\ heap[l.ptr].key # Call(c).key
         /\ <<l.ptr[1], l.ptr[2]>> \in Call(c).after

\* ------------------------------------------------------------ reclamation
\* The tables reachable from table tb, itself included.
RECURSIVE TablesUnder(_)
TablesUnder(tb) ==
  {tb} \cup UNION {IF IsBranch(tables[tb][i])
                   THEN TablesUnder(tables[tb][i])
                   ELSE {} : i \in Idx}

ReachTables == TablesUnder(Root)

\* The buckets allocated and not freed.
Allocated == DOMAIN heap \ destroyed

\* C18: once every call has returned and every Guard is dropped, the
\* buckets still allocated are the Leaves reachable from the root and the
\* Branches of the reachable tables, and nothing else: whatever a CAS
\* unlinked has been retired and destroyed.
C18_NoLeaks ==
  (Quiescent /\ \A t \in Threads : held[t] = Null) =>
    /\ Allocated = {l.ptr : l \in Leaves} \cup (ReachTables \ {Root})
    /\ leaked = 0

\* -------------------------------------------------------------- ownership
\* The tables reachable from the root, with their slots.
Reachable == [tb \in ReachTables |-> tables[tb]]

\* C19: every bucket, Leaf or Branch, is held by at most one slot of the
\* tables reachable from the root; and a successful expansion CAS leaves
\* the Leaf that was in the slot held by one slot of the new subtree only,
\* the slot itself now holding the new Branch.
C19_OwnershipTree ==
  /\ [](\A p \in DOMAIN heap : Cardinality(HoldersIn(Reachable, p)) <= 1)
  /\ [][\A t \in Threads :
          (Expanding(t) /\ pc'[t] = "idle") =>
            /\ tables'[self[t]][index[t]] = BranchPtr(t, Len(hist[t]) + 1, 1)
            /\ Cardinality(HoldersIn(tables', bucket[t])) = 1
            /\ \A sl \in HoldersIn(tables', bucket[t]) :
                 sl[1] \notin DOMAIN tables]_vars

\* Three Leaves are reachable from the root through two expansions, one
\* below the other.
C19_Witness ==
  /\ Cardinality(Leaves) = 3
  /\ Cardinality(ReachTables) >= 3
  /\ \E l \in Leaves : Len(l.path) >= 3

\* ----------------------------------------------------- value conservation
\* The returned inserts and deletes that handed a value out to their caller.
Takers ==
  {c \in Returned : Call(c).kind \in {"insert", "delete"} /\ Call(c).ret # None}

\* C20: a value that an insert published is returned by at most one insert
\* (as the value displaced) or delete (as the value removed), and the value
\* of a Leaf that is reachable from the root has been returned by none.
\* (Every insert publishes a value of its own, Val, so that equal values are
\* the same Leaf's.)
C20_ValueConservation ==
  /\ \A c1, c2 \in Takers : Call(c1).ret = Call(c2).ret => c1 = c2
  /\ \A l \in Leaves : \A c \in Takers : Call(c).ret # heap[l.ptr].value

\* An insert and a delete have each taken a value out of the map, one of
\* them after losing its CAS, and a Leaf is still in the map.
C20_Witness ==
  /\ \E c1, c2 \in Takers :
       /\ Call(c1).kind = "insert" /\ Call(c2).kind = "delete"
       /\ {c1, c2} \cap Losers({"replace", "delete"}) # {}
  /\ Leaves # {}


====
